---- MODULE Spec2Model ----
(***************************************************************************)
(* Model of the genetic-api gateway: the API-key gate (app/auth.py,        *)
(* app/config.py), the chat route (app/routes/chat.py) and the inference   *)
(* adapter (app/services/llm_service.py).                                  *)
(*                                                                         *)
(* Python strings are sequences of one-character strings, so that split,   *)
(* strip, endswith, slicing and concatenation are computed character by    *)
(* character.  Python's None is the one-element sequence <<"None">>, whose *)
(* element is not a character, so it differs from every string.            *)
(***************************************************************************)
EXTENDS Naturals, Sequences, FiniteSets, TLC

\* ------------------------------------------------------------------ bounds

\* Longest configured API_KEYS string enumerated.
MaxKeysLen == 3

\* Requests handled in one behaviour.
MaxCalls == 2

\* Number of pieces (ordinary character, blank, end-of-turn marker) a text
\* handed to _clean_response is built from.
MaxPieces == 3

\* ----------------------------------------------------------------- strings

None == <<"None">>

Whitespace == {" ", "\t", "\n"}

DevMode == <<"d", "e", "v", "-", "m", "o", "d", "e">>
MissingDetail == <<"M", "i", "s", "s", "i", "n", "g", " ", "A", "P", "I", " ", "k", "e", "y", ".", " ", "P", "r", "o", "v", "i", "d", "e", " ", "X", "-", "A", "P", "I", "-", "K", "e", "y", " ", "h", "e", "a", "d", "e", "r", ".">>
InvalidDetail == <<"I", "n", "v", "a", "l", "i", "d", " ", "A", "P", "I", " ", "k", "e", "y", ".">>

\* All strings over alphabet of length at most n.
StringsUpTo(alphabet, n) == UNION {[1..k -> alphabet] : k \in 0..n}

\* bool(x) of a str or None: None and "" are falsy.
Truthy(x) == x # None /\ x # <<>>

\* str.strip(): leading and trailing whitespace removed.
RECURSIVE LStrip(_)
LStrip(s) ==
    IF s # <<>> /\ Head(s) \in Whitespace THEN LStrip(Tail(s)) ELSE s

RECURSIVE RStrip(_)
RStrip(s) ==
    IF s # <<>> /\ s[Len(s)] \in Whitespace
    THEN RStrip(SubSeq(s, 1, Len(s) - 1))
    ELSE s

Strip(s) == RStrip(LStrip(s))

\* str.split(sep) for a one-character separator: always at least one segment.
RECURSIVE SplitFrom(_, _, _)
SplitFrom(s, sep, cur) ==
    IF s = <<>> THEN <<cur>>
    ELSE IF Head(s) = sep THEN <<cur>> \o SplitFrom(Tail(s), sep, <<>>)
    ELSE SplitFrom(Tail(s), sep, Append(cur, Head(s)))

Split(s, sep) == SplitFrom(s, sep, <<>>)

\* str.endswith(suffix)
EndsWith(s, suffix) ==
    /\ Len(suffix) <= Len(s)
    /\ SubSeq(s, Len(s) - Len(suffix) + 1, Len(s)) = suffix

\* sub in s, for strings
Contains(s, sub) ==
    \E i \in 0..(Len(s) - Len(sub)) : SubSeq(s, i + 1, i + Len(sub)) = sub

\* x in lst, for a list
InList(x, lst) == \E i \in 1..Len(lst) : lst[i] = x

\* ------------------------------------------------------------------ config

\* Settings.api_keys_list: a property, evaluated on every access, building a
\* new list of the stripped, non-empty comma-separated segments of api_keys.
RECURSIVE StripNonEmpty(_)
StripNonEmpty(segs) ==
    IF segs = <<>> THEN <<>>
    ELSE LET key == Strip(Head(segs))
         IN  (IF key # <<>> THEN <<key>> ELSE <<>>) \o StripNonEmpty(Tail(segs))

api_keys_list(self) ==
    IF ~Truthy(self.api_keys) THEN <<>>
    ELSE StripNonEmpty(Split(self.api_keys, ","))

\* -------------------------------------------------------------------- gate

\* The outcomes of verify_api_key: a return value or an HTTPException.
Accepted(who) ==
    [kind |-> "accepted", identity |-> who, status_code |-> 200, detail |-> <<>>]

Rejected(code, why) ==
    [kind |-> "rejected", identity |-> None, status_code |-> code, detail |-> why]

\* auth.py:24: settings.api_keys_list.append('dev-mode').  The property is
\* evaluated, and 'dev-mode' is appended to the list that evaluation built;
\* no reference to that list is kept.
verify_api_key_appended(settings) == Append(api_keys_list(settings), DevMode)

\* The list as it would be were the property to hand out one shared list.
verify_api_key_keys_shared(settings) == verify_api_key_appended(settings)

\* auth.py:26 and auth.py:35: settings.api_keys_list, evaluated again: the
\* property builds another list from the unchanged api_keys string.
verify_api_key_keys(settings) == api_keys_list(settings)

\* A gate that accepts whatever key is presented.
verify_api_key_any_present(settings, api_key) ==
    LET keys == verify_api_key_keys(settings)
    IN  IF keys = <<>> THEN Accepted(DevMode)
        ELSE IF ~Truthy(api_key) THEN Rejected(401, MissingDetail)
        ELSE Accepted(api_key)

\* The checks in the order of a bug that tests membership before presence.
verify_api_key_membership_first(settings, api_key) ==
    LET keys == verify_api_key_keys(settings)
    IN  IF keys = <<>> THEN Accepted(DevMode)
        ELSE IF ~InList(api_key, keys) THEN Rejected(401, InvalidDetail)
        ELSE IF ~Truthy(api_key) THEN Rejected(401, MissingDetail)
        ELSE Accepted(api_key)

\* auth.py:26-41
verify_api_key_outcome(settings, api_key) ==
    LET keys == verify_api_key_keys(settings)
    IN  IF keys = <<>> THEN Accepted(DevMode)
        ELSE IF ~Truthy(api_key) THEN Rejected(401, MissingDetail)
        ELSE IF ~InList(api_key, keys) THEN Rejected(401, InvalidDetail)
        ELSE Accepted(api_key)

\* ----------------------------------------------------- end-of-turn markers

IM_END == <<"<", "|", "i", "m", "_", "e", "n", "d", "|", ">">>
ENDOFTEXT == <<"<", "|", "e", "n", "d", "o", "f", "t", "e", "x", "t", "|", ">">>
S_END == <<"<", "/", "s", ">">>

\* llm_service.py:169: the tokens in the order the loop visits them.
EndTokens == <<IM_END, ENDOFTEXT, S_END>>

\* llm_service.py:170-171: one iteration of the loop.
RemoveToken(response, token) ==
    IF EndsWith(response, token)
    THEN Strip(SubSeq(response, 1, Len(response) - Len(token)))
    ELSE response

RECURSIVE RemoveTokens(_, _)
RemoveTokens(response, tokens) ==
    IF tokens = <<>> THEN response
    ELSE RemoveTokens(RemoveToken(response, Head(tokens)), Tail(tokens))

\* LLMService._clean_response: strip, then one pass over the tokens.
clean_response(response) == RemoveTokens(Strip(response), EndTokens)

\* -------------------------------------------------------------------- JSON

\* A decoded JSON value, as response.json() returns it: None, a str, an int,
\* a list, or a dict (its items in order, each a <<key, value>> pair).
J_null == [t |-> "null", v |-> <<>>]
J_str(s) == [t |-> "str", v |-> s]
J_num(n) == [t |-> "num", v |-> n]
J_list(items) == [t |-> "list", v |-> items]
J_obj(items) == [t |-> "dict", v |-> items]

\* A raised exception, carrying str(e).
Raise(msg) == [t |-> "raise", v |-> msg]
IsRaise(x) == x.t = "raise"

\* The body of a response that is not JSON: response.json() raises.
NotJson == [t |-> "notjson", v |-> <<>>]

\* str(e) of the exceptions the interpreter raises on a reply of the wrong
\* shape, one text per exception class.
AttributeErrorMsg == <<"o", "b", "j", "e", "c", "t", " ", "h", "a", "s", " ", "n", "o", " ", "a", "t", "t", "r", "i", "b", "u", "t", "e">>
KeyErrorMsg == <<"k", "e", "y", " ", "n", "o", "t", " ", "f", "o", "u", "n", "d">>
TypeErrorMsg == <<"i", "n", "d", "i", "c", "e", "s", " ", "m", "u", "s", "t", " ", "b", "e", " ", "i", "n", "t", "e", "g", "e", "r", "s">>
IndexErrorMsg == <<"l", "i", "s", "t", " ", "i", "n", "d", "e", "x", " ", "o", "u", "t", " ", "o", "f", " ", "r", "a", "n", "g", "e">>
JSONDecodeErrorMsg == <<"E", "x", "p", "e", "c", "t", "i", "n", "g", " ", "v", "a", "l", "u", "e">>
ConnectErrorMsg == <<"A", "l", "l", " ", "c", "o", "n", "n", "e", "c", "t", "i", "o", "n", " ", "a", "t", "t", "e", "m", "p", "t", "s", " ", "f", "a", "i", "l", "e", "d">>

Digits == <<"0", "1", "2", "3", "4", "5", "6", "7", "8", "9">>

\* str(n) of a natural number.
RECURSIVE NatStr(_)
NatStr(n) ==
    IF n < 10 THEN <<Digits[n + 1]>>
    ELSE NatStr(n \div 10) \o <<Digits[(n % 10) + 1]>>

HasKey(items, key) == \E i \in 1..Len(items) : items[i][1] = key

\* The value of the first item with the key.
Lookup(items, key) ==
    items[CHOOSE i \in 1..Len(items) :
            items[i][1] = key /\ \A j \in 1..(i - 1) : items[j][1] # key][2]

\* x.get(key, default): AttributeError unless x is a dict.
Get(x, key, default) ==
    IF x.t # "dict" THEN Raise(AttributeErrorMsg)
    ELSE IF HasKey(x.v, key) THEN Lookup(x.v, key)
    ELSE default

\* x[key] for a str key: KeyError on a dict without it, TypeError otherwise.
Item(x, key) ==
    IF x.t = "dict"
    THEN IF HasKey(x.v, key) THEN Lookup(x.v, key) ELSE Raise(KeyErrorMsg)
    ELSE Raise(TypeErrorMsg)

\* x[0]: the first element of a list, the first character of a str.
First(x) ==
    IF x.t = "list"
    THEN IF x.v # <<>> THEN x.v[1] ELSE Raise(IndexErrorMsg)
    ELSE IF x.t = "str"
    THEN IF x.v # <<>> THEN J_str(<<x.v[1]>>) ELSE Raise(IndexErrorMsg)
    ELSE IF x.t = "dict" THEN Raise(KeyErrorMsg)
    ELSE Raise(TypeErrorMsg)

\* bool(x) of a decoded value.
JTruthy(x) ==
    CASE x.t = "null" -> FALSE
      [] x.t = "num" -> x.v # 0
      [] OTHER -> x.v # <<>>

\* repr(x): Python's rendering of a decoded value (strings without quotes or
\* escapes in them).
RECURSIVE PyRepr(_)
RECURSIVE ReprItems(_, _)
ReprItems(items, isDict) ==
    IF items = <<>> THEN <<>>
    ELSE (IF isDict
          THEN <<"'">> \o Head(items)[1] \o <<"'", ":", " ">> \o PyRepr(Head(items)[2])
          ELSE PyRepr(Head(items)))
         \o (IF Tail(items) = <<>> THEN <<>> ELSE <<",", " ">>)
         \o ReprItems(Tail(items), isDict)

PyRepr(x) ==
    CASE x.t = "null" -> <<"N", "o", "n", "e">>
      [] x.t = "str" -> <<"'">> \o x.v \o <<"'">>
      [] x.t = "num" -> NatStr(x.v)
      [] x.t = "list" -> <<"[">> \o ReprItems(x.v, FALSE) \o <<"]">>
      [] x.t = "dict" -> <<"{">> \o ReprItems(x.v, TRUE) \o <<"}">>

\* str(x): a str is itself, anything else is its repr.
PyStr(x) == IF x.t = "str" THEN x.v ELSE PyRepr(x)

\* The text of a JSON body as the upstream sends it (compact separators).
RECURSIVE JsonText(_)
RECURSIVE JsonItems(_, _)
JsonItems(items, isDict) ==
    IF items = <<>> THEN <<>>
    ELSE (IF isDict
          THEN <<"\"">> \o Head(items)[1] \o <<"\"", ":">> \o JsonText(Head(items)[2])
          ELSE JsonText(Head(items)))
         \o (IF Tail(items) = <<>> THEN <<>> ELSE <<",">>)
         \o JsonItems(Tail(items), isDict)

JsonText(x) ==
    CASE x.t = "null" -> <<"n", "u", "l", "l">>
      [] x.t = "str" -> <<"\"">> \o x.v \o <<"\"">>
      [] x.t = "num" -> NatStr(x.v)
      [] x.t = "list" -> <<"[">> \o JsonItems(x.v, FALSE) \o <<"]">>
      [] x.t = "dict" -> <<"{">> \o JsonItems(x.v, TRUE) \o <<"}">>

\* --------------------------------------------------------- inference adapter

K_error == <<"e", "r", "r", "o", "r">>
K_message == <<"m", "e", "s", "s", "a", "g", "e">>
K_generated_text == <<"g", "e", "n", "e", "r", "a", "t", "e", "d", "_", "t", "e", "x", "t">>
K_choices == <<"c", "h", "o", "i", "c", "e", "s">>
K_content == <<"c", "o", "n", "t", "e", "n", "t">>

HttpPrefix == <<"H", "T", "T", "P", " ">>
ApiErrorPrefix == <<"H", "u", "g", "g", "i", "n", "g", "F", "a", "c", "e", " ", "A", "P", "I", " ", "e", "r", "r", "o", "r", " ", "(">>
ApiErrorSep == <<")", ":", " ">>
FailedPrefix == <<"F", "a", "i", "l", "e", "d", " ", "t", "o", " ", "g", "e", "n", "e", "r", "a", "t", "e", " ", "r", "e", "s", "p", "o", "n", "s", "e", ":", " ">>
EmptyResponseMsg == <<"M", "o", "d", "e", "l", " ", "r", "e", "t", "u", "r", "n", "e", "d", " ", "e", "m", "p", "t", "y", " ", "r", "e", "s", "p", "o", "n", "s", "e", ".">>
TimeoutMsg == <<"R", "e", "q", "u", "e", "s", "t", " ", "t", "i", "m", "e", "d", " ", "o", "u", "t", ".", " ", "T", "h", "e", " ", "m", "o", "d", "e", "l", " ", "m", "a", "y", " ", "b", "e", " ", "l", "o", "a", "d", "i", "n", "g", " ", "-", " ", "p", "l", "e", "a", "s", "e", " ", "t", "r", "y", " ", "a", "g", "a", "i", "n", ".">>

\* What `await client.post(...)` ends with: a response, httpx.TimeoutException,
\* or another exception of the transport.
HttpResponse(code, body_text, body_json) ==
    [kind |-> "response", status_code |-> code, text |-> body_text, json |-> body_json]

JsonResponse(code, data) == HttpResponse(code, JsonText(data), data)
TextResponse(code, body_text) == HttpResponse(code, body_text, NotJson)
PostTimeout == [kind |-> "timeout", status_code |-> 0, text |-> <<>>, json |-> NotJson]
PostError == [kind |-> "error", status_code |-> 0, text |-> <<>>, json |-> NotJson]
NoPost == [kind |-> "none", status_code |-> 0, text |-> <<>>, json |-> NotJson]

\* A conversation id that cuts the uuid one character short.
conv_id_short(conversation_id, uuid) ==
    IF Truthy(conversation_id) THEN conversation_id ELSE SubSeq(uuid, 1, 7)

\* llm_service.py:58: conv_id = conversation_id or str(uuid.uuid4())[:8]
conv_id_of(conversation_id, uuid) ==
    IF Truthy(conversation_id) THEN conversation_id ELSE SubSeq(uuid, 1, 8)

\* llm_service.py:105-110: the diagnostic of a non-200 response, as the
\* f-string of line 112 renders it.
error_msg_of(response) ==
    LET fallback == IF response.text # <<>> THEN response.text
                    ELSE HttpPrefix \o NatStr(response.status_code)
        error_data == response.json
    IN  IF error_data.t = "notjson" THEN fallback
        ELSE LET error == Get(error_data, K_error, J_null)
             IN  IF IsRaise(error) THEN fallback
                 ELSE IF error.t = "dict"
                 THEN PyStr(Get(error, K_message, J_str(fallback)))
                 ELSE PyStr(Get(error_data, K_error, J_str(fallback)))

\* llm_service.py:126: data["choices"][0]["message"]["content"]
chat_content(data) ==
    LET choices == Item(data, K_choices)
    IN  IF IsRaise(choices) THEN choices
        ELSE LET first == First(choices)
             IN  IF IsRaise(first) THEN first
                 ELSE LET message == Item(first, K_message)
                      IN  IF IsRaise(message) THEN message
                          ELSE Item(message, K_content)

\* llm_service.py:118-126: the text taken from the decoded reply.
response_text_of(use_dedicated, data) ==
    IF use_dedicated
    THEN IF data.t = "list" /\ data.v # <<>>
         THEN Get(data.v[1], K_generated_text, J_str(<<>>))
         ELSE Get(data, K_generated_text, J_str(PyStr(data)))
    ELSE chat_content(data)

\* llm_service.py:129: self._clean_response(response_text or ""); .strip()
\* is an AttributeError on a truthy value that is not a str.
cleaned_of(response_text) ==
    IF IsRaise(response_text) THEN response_text
    ELSE IF ~JTruthy(response_text) THEN J_str(clean_response(<<>>))
    ELSE IF response_text.t # "str" THEN Raise(AttributeErrorMsg)
    ELSE J_str(clean_response(response_text.v))

\* What generate_response ends with.
Returned(response_text, cid) ==
    [ok |-> TRUE, text |-> response_text, conversation_id |-> cid, message |-> <<>>]

Failed(msg) ==
    [ok |-> FALSE, text |-> <<>>, conversation_id |-> <<>>, message |-> msg]

\* llm_service.py:100-142, from the end of the POST on.
generate_response_end(use_dedicated, post, cid) ==
    IF post.kind = "timeout" THEN Failed(TimeoutMsg)
    ELSE IF post.kind = "error" THEN Failed(FailedPrefix \o ConnectErrorMsg)
    ELSE IF post.status_code # 200
    THEN Failed(FailedPrefix \o ApiErrorPrefix \o NatStr(post.status_code)
                \o ApiErrorSep \o error_msg_of(post))
    ELSE IF post.json.t = "notjson" THEN Failed(FailedPrefix \o JSONDecodeErrorMsg)
    ELSE LET cleaned == cleaned_of(response_text_of(use_dedicated, post.json))
         IN  IF IsRaise(cleaned) THEN Failed(FailedPrefix \o cleaned.v)
             ELSE IF cleaned.v = <<>> THEN Failed(FailedPrefix \o EmptyResponseMsg)
             ELSE Returned(cleaned.v, cid)

\* ------------------------------------------------------------------ inputs

\* API_KEYS values of the environment: every string of a key character, the
\* separator and a blank, and two that configure the placeholder itself.
ConfiguredKeys ==
    StringsUpTo({"a", ",", " "}, MaxKeysLen)
        \cup {DevMode, <<"a", ",">> \o DevMode}

\* X-API-Key values: no header, the empty string, keys with and without
\* blanks around them, and the placeholder.
PresentedKeys ==
    {None, DevMode} \cup StringsUpTo({"a", " "}, 2)

Abc123 == <<"a", "b", "c", "1", "2", "3">>

\* conversation_id of the request body: Optional[str], no length constraint.
ConversationIds == {None, <<>>, Abc123}

\* str(uuid.uuid4()) values.
Uuids ==
    { <<"3", "f", "2", "b", "9", "c", "1", "e", "-", "7", "a", "4", "d", "-", "4", "e", "8", "b", "-", "9", "c", "0", "a", "-", "5", "d", "6", "e", "7", "f", "8", "0", "9", "1", "a", "2">>,
      <<"0", "a", "1", "b", "2", "c", "3", "d", "-", "4", "e", "5", "f", "-", "4", "a", "6", "b", "-", "8", "c", "7", "d", "-", "9", "e", "0", "f", "1", "a", "2", "b", "3", "c", "4", "d">> }

\* Texts built from an ordinary character, a blank and the three markers.
Pieces == {<<"x">>, <<" ">>, IM_END, ENDOFTEXT, S_END}

RECURSIVE TextsOf(_)
TextsOf(n) ==
    IF n = 0 THEN {<<>>}
    ELSE {p \o t : p \in Pieces, t \in TextsOf(n - 1)}

TextsUpTo(n) == UNION {TextsOf(k) : k \in 0..n}

RateLimited == <<"r", "a", "t", "e", " ", "l", "i", "m", "i", "t", "e", "d">>
Loading == <<"l", "o", "a", "d", "i", "n", "g">>
BadGateway == <<"B", "a", "d", " ", "G", "a", "t", "e", "w", "a", "y">>
K_code == <<"c", "o", "d", "e">>

\* Replies in the two wire formats carrying a generated text.
TgiList(text) == J_list(<<J_obj(<< <<K_generated_text, J_str(text)>> >>)>>)
TgiObject(text) == J_obj(<< <<K_generated_text, J_str(text)>> >>)
ChatCompletion(text) ==
    J_obj(<< <<K_choices,
               J_list(<<J_obj(<< <<K_message,
                                   J_obj(<< <<K_content, J_str(text)>> >>)>> >>)>>)>> >>)

\* Decoded bodies of other shapes.
OtherBodies ==
    { J_list(<<>>),
      J_list(<<J_obj(<<>>)>>),
      J_list(<<J_obj(<< <<K_generated_text, J_null>> >>)>>),
      J_list(<<J_obj(<< <<K_generated_text, J_num(5)>> >>)>>),
      J_list(<<J_str(<<"x">>)>>),
      J_obj(<<>>),
      J_obj(<< <<K_code, J_num(5)>> >>),
      J_obj(<< <<K_generated_text, J_null>> >>),
      J_obj(<< <<K_choices, J_list(<<>>)>> >>),
      J_obj(<< <<K_choices, J_list(<<J_obj(<<>>)>>)>> >>),
      J_obj(<< <<K_choices, J_str(<<"x">>)>> >>),
      J_str(<<"x">>),
      J_null }

\* Decoded bodies of error replies.
ErrorBodies ==
    { J_obj(<< <<K_error, J_obj(<< <<K_message, J_str(RateLimited)>> >>)>> >>),
      J_obj(<< <<K_error, J_obj(<< <<K_code, J_num(5)>> >>)>> >>),
      J_obj(<< <<K_error, J_obj(<< <<K_message, J_null>> >>)>> >>),
      J_obj(<< <<K_error, J_str(Loading)>> >>),
      J_obj(<< <<K_error, J_null>> >>),
      J_obj(<< <<K_error, J_list(<<J_str(Loading)>>)>> >>),
      J_obj(<< <<K_code, J_num(5)>> >>),
      J_list(<<J_str(Loading)>>) }

\* Generated texts of replies: every text of at most two pieces.
ReplyTexts == TextsOf(0) \cup TextsOf(1) \cup TextsOf(2)

JsonBodies ==
    {TgiList(t) : t \in ReplyTexts}
        \cup {TgiObject(t) : t \in ReplyTexts}
        \cup {ChatCompletion(t) : t \in ReplyTexts}
        \cup OtherBodies \cup ErrorBodies

ErrorStatusCodes == {429, 503}

\* Everything the POST can end with.
PostOutcomes ==
    {JsonResponse(200, data) : data \in JsonBodies}
        \cup {JsonResponse(code, data) :
                 code \in ErrorStatusCodes, data \in ErrorBodies \cup {TgiList(<<"x">>)}}
        \cup {TextResponse(code, text) :
                 code \in ErrorStatusCodes \cup {200}, text \in {<<>>, BadGateway}}
        \cup {PostTimeout, PostError}

\* ------------------------------------------------------------------- state

VARIABLES
    settings,                \* get_settings(): the one cached Settings object
    startup_keys,            \* settings.api_keys_list as startup_event saw it
    use_dedicated_endpoint,  \* LLMService.use_dedicated_endpoint
    pc,                      \* where the request in flight is
    calls,                   \* requests received so far
    request,                 \* the request in flight: header and body fields
    appended,                \* the list verify_api_key appended to in its latest call
    consulted,               \* the list verify_api_key tested in its latest call
    gate,                    \* what verify_api_key ended with for this request
    conv_id,                 \* generate_response's conv_id
    posts,                   \* upstream POSTs issued for this request
    post,                    \* what the POST ended with
    result,                  \* the HTTP response sent to the caller
    clean_pc,                \* _clean_response on its own: position,
    clean_in,                \*   the text it is given,
    clean_once,              \*   the text after one application,
    clean_twice              \*   the text after a second application

service_vars ==
    <<settings, startup_keys, use_dedicated_endpoint, pc, calls, request,
      appended, consulted, gate, conv_id, posts, post, result>>

clean_vars == <<clean_pc, clean_in, clean_once, clean_twice>>

vars == <<service_vars, clean_vars>>

NoRequest == [api_key |-> None, conversation_id |-> None]
NoGate == [kind |-> "none", identity |-> None, status_code |-> 0, detail |-> <<>>]
NoResult ==
    [status_code |-> 0, response |-> <<>>, conversation_id |-> <<>>, detail |-> <<>>]

\* chat.py:52-56 and chat.py:58-63: the two responses of the route, and the
\* response FastAPI makes of verify_api_key's HTTPException.
ChatResponse(text, cid) ==
    [status_code |-> 200, response |-> text, conversation_id |-> cid, detail |-> <<>>]

ErrorResponse(code, why) ==
    [status_code |-> code, response |-> <<>>, conversation_id |-> <<>>, detail |-> why]

ServiceIdle ==
    /\ pc = "idle"
    /\ calls = 0
    /\ request = NoRequest
    /\ startup_keys = api_keys_list(settings)
    /\ appended = <<>>
    /\ consulted = <<>>
    /\ gate = NoGate
    /\ conv_id = None
    /\ posts = 0
    /\ post = NoPost
    /\ result = NoResult

CleanIdle ==
    /\ clean_pc = "off"
    /\ clean_in = <<>>
    /\ clean_once = <<>>
    /\ clean_twice = <<>>

\* The process after start-up: Settings loaded from the environment, the
\* LLMService built, no request received.
Init ==
    /\ settings \in {[api_keys |-> k] : k \in ConfiguredKeys}
    /\ use_dedicated_endpoint \in BOOLEAN
    /\ ServiceIdle
    /\ CleanIdle

\* A request arrives at POST /api/v1/chat.  Requests share no mutable state,
\* so they are taken one at a time.
Receive ==
    /\ pc = "idle"
    /\ calls < MaxCalls
    /\ \E k \in PresentedKeys, c \in ConversationIds :
           request' = [api_key |-> k, conversation_id |-> c]
    /\ calls' = calls + 1
    /\ pc' = "gate"
    /\ UNCHANGED <<settings, startup_keys, use_dedicated_endpoint, appended,
                   consulted, gate, conv_id, posts, post, result, clean_vars>>

\* The response is sent and the request's objects are dropped; Settings and
\* the LLMService stay.
Respond ==
    /\ pc = "done"
    /\ pc' = "idle"
    /\ request' = NoRequest
    /\ gate' = NoGate
    /\ conv_id' = None
    /\ posts' = 0
    /\ post' = NoPost
    /\ result' = NoResult
    /\ UNCHANGED <<settings, startup_keys, use_dedicated_endpoint, calls,
                   appended, consulted, clean_vars>>

\* auth.py:11-41, run by FastAPI as the route's dependency.  A rejection is
\* answered with the exception's status and detail.
verify_api_key ==
    /\ pc = "gate"
    /\ LET outcome == verify_api_key_outcome(settings, request.api_key)
       IN  /\ gate' = outcome
           /\ appended' = verify_api_key_appended(settings)
           /\ consulted' = verify_api_key_keys(settings)
           /\ IF outcome.kind = "accepted"
              THEN pc' = "handler" /\ result' = result
              ELSE /\ pc' = "done"
                   /\ result' = ErrorResponse(outcome.status_code, outcome.detail)
    /\ UNCHANGED <<settings, startup_keys, use_dedicated_endpoint, calls,
                   request, conv_id, posts, post, clean_vars>>

\* A route that runs without waiting for its dependency.
chat_ready_ungated == pc \in {"gate", "handler"}

\* chat.py:27: api_key: str = Depends(verify_api_key): the route body runs
\* once the dependency has returned.
chat_ready == pc = "handler"

\* chat.py:41-50 and llm_service.py:53-98: the route calls generate_response,
\* which resolves the conversation id and awaits the POST.
chat_call ==
    /\ chat_ready
    /\ \E uuid \in Uuids : conv_id' = conv_id_of(request.conversation_id, uuid)
    /\ posts' = posts + 1
    /\ pc' = "awaiting"
    /\ UNCHANGED <<settings, startup_keys, use_dedicated_endpoint, calls,
                   request, appended, consulted, gate, post, result,
                   clean_vars>>

\* A route that calls generate_response again when it failed.
chat_return_retrying ==
    /\ pc = "awaiting"
    /\ \E outcome \in PostOutcomes :
         LET ended == generate_response_end(use_dedicated_endpoint, outcome, conv_id)
         IN  /\ post' = outcome
             /\ IF ended.ok
                THEN /\ result' = ChatResponse(ended.text, ended.conversation_id)
                     /\ pc' = "done"
                ELSE /\ result' = result
                     /\ pc' = "handler"
    /\ UNCHANGED <<settings, startup_keys, use_dedicated_endpoint, calls,
                   request, appended, consulted, gate, conv_id, posts,
                   clean_vars>>

\* llm_service.py:100-142 and chat.py:52-63: the POST ends, generate_response
\* returns or raises, and the route answers 200 or 500.
chat_return ==
    /\ pc = "awaiting"
    /\ \E outcome \in PostOutcomes :
         LET ended == generate_response_end(use_dedicated_endpoint, outcome, conv_id)
         IN  /\ post' = outcome
             /\ result' = IF ended.ok
                          THEN ChatResponse(ended.text, ended.conversation_id)
                          ELSE ErrorResponse(500, ended.message)
    /\ pc' = "done"
    /\ UNCHANGED <<settings, startup_keys, use_dedicated_endpoint, calls,
                   request, appended, consulted, gate, conv_id, posts,
                   clean_vars>>

Next == Receive \/ verify_api_key \/ chat_call \/ chat_return \/ Respond

Spec == Init /\ [][Next]_vars

\* ------------------------------------------------ _clean_response on its own

InitClean ==
    /\ settings = [api_keys |-> <<>>]
    /\ use_dedicated_endpoint = FALSE
    /\ ServiceIdle
    /\ clean_pc = "given"
    /\ clean_in \in TextsUpTo(MaxPieces)
    /\ clean_once = <<>>
    /\ clean_twice = <<>>

CleanOnce ==
    /\ clean_pc = "given"
    /\ clean_once' = clean_response(clean_in)
    /\ clean_pc' = "once"
    /\ UNCHANGED <<service_vars, clean_in, clean_twice>>

CleanTwice ==
    /\ clean_pc = "once"
    /\ clean_twice' = clean_response(clean_once)
    /\ clean_pc' = "twice"
    /\ UNCHANGED <<service_vars, clean_in, clean_once>>

NextClean == CleanOnce \/ CleanTwice

SpecClean == InitClean /\ [][NextClean]_vars

\* ------------------------------------------------------------------ claims

\* The gate has decided the request in flight.
Gated == gate.kind # "none"

\* C1: for every configured credential set S and presented credential v
\* (absent or any string), verify_api_key accepts iff S is empty or v is a
\* member of S; otherwise it rejects with 401.
C1_AcceptIffEmptyOrMember ==
    Gated =>
        LET S == api_keys_list(settings)
            v == request.api_key
        IN  /\ gate.kind = "accepted" <=> (S = <<>> \/ InList(v, S))
            /\ gate.kind # "accepted" =>
                   /\ gate.kind = "rejected"
                   /\ gate.status_code = 401
                   /\ result.status_code = 401
                   /\ pc = "done"

\* C1: a key that is one of two configured keys has been accepted.
C1_Witness ==
    /\ gate.kind = "accepted"
    /\ Len(api_keys_list(settings)) = 2
    /\ InList(request.api_key, api_keys_list(settings))

\* C2: verify_api_key never changes the credential set: on every call the list
\* it tests is the list configured at startup, 'dev-mode' is rejected when that
\* list is non-empty and does not hold it, and an empty list is still empty.
C2_GateKeepsCredentialSet ==
    Gated =>
        /\ consulted = startup_keys
        /\ startup_keys = <<>> => (consulted = <<>> /\ gate = Accepted(DevMode))
        /\ (/\ startup_keys # <<>>
            /\ ~InList(DevMode, startup_keys)
            /\ request.api_key = DevMode) => gate.kind = "rejected"

\* C2: on a second call, with keys configured and 'dev-mode' not among them,
\* 'dev-mode' was presented and rejected.
C2_Witness ==
    /\ calls = 2
    /\ startup_keys # <<>>
    /\ ~InList(DevMode, startup_keys)
    /\ request.api_key = DevMode
    /\ gate.kind = "rejected"
    /\ InList(DevMode, appended)

\* C3, as stated: with a non-empty credential set, an absent credential is
\* rejected 'Missing API key', a present credential that is not a member is
\* rejected 'Invalid API key', a present member is accepted as itself.
C3_AbsentMissingPresentInvalid ==
    (Gated /\ api_keys_list(settings) # <<>>) =>
        LET S == api_keys_list(settings)
            v == request.api_key
        IN  /\ v = None => gate = Rejected(401, MissingDetail)
            /\ (v # None /\ ~InList(v, S)) => gate = Rejected(401, InvalidDetail)
            /\ (v # None /\ InList(v, S)) => gate = Accepted(v)

\* C3, amended: with a non-empty credential set, an absent or empty
\* credential is rejected 'Missing API key', a non-empty credential that is
\* not a member is rejected 'Invalid API key', a member is accepted as itself.
C3_EmptyCountsAsMissing ==
    (Gated /\ api_keys_list(settings) # <<>>) =>
        LET S == api_keys_list(settings)
            v == request.api_key
        IN  /\ (v = None \/ v = <<>>) => gate = Rejected(401, MissingDetail)
            /\ (v # None /\ v # <<>> /\ ~InList(v, S)) =>
                   gate = Rejected(401, InvalidDetail)
            /\ InList(v, S) => gate = Accepted(v)

\* C3: the empty string was presented to a non-empty credential set and
\* rejected as missing.
C3_Witness ==
    /\ api_keys_list(settings) # <<>>
    /\ request.api_key = <<>>
    /\ gate = Rejected(401, MissingDetail)

\* C4: the upstream POST of a request is issued only after verify_api_key has
\* accepted the request, and a request the gate rejected (401) has no POST.
C4_GateBeforeUpstream ==
    /\ (posts > 0 \/ post.kind # "none" \/ pc = "awaiting") =>
           /\ gate.kind = "accepted"
           /\ gate = verify_api_key_outcome(settings, request.api_key)
    /\ (gate.kind = "rejected" \/ result.status_code = 401) =>
           (posts = 0 /\ post = NoPost)

\* C4: a POST has been issued for a request accepted against configured keys.
C4_Witness ==
    /\ posts = 1
    /\ pc = "awaiting"
    /\ gate = Accepted(request.api_key)
    /\ startup_keys # <<>>

\* C5, as stated: on success a supplied conversation id (any string) is
\* returned verbatim, and with none supplied the id is a fresh token of
\* length 8.
C5_AnySuppliedIdEchoed ==
    (pc = "done" /\ result.status_code = 200) =>
        /\ request.conversation_id # None =>
               result.conversation_id = request.conversation_id
        /\ request.conversation_id = None => Len(result.conversation_id) = 8

\* C5, amended: on success a supplied non-empty conversation id is returned
\* verbatim; with none supplied, or the empty string, the id is the first 8
\* characters of a new uuid.
C5_NonEmptyIdEchoed ==
    (pc = "done" /\ result.status_code = 200) =>
        /\ (request.conversation_id # None /\ request.conversation_id # <<>>) =>
               result.conversation_id = request.conversation_id
        /\ (request.conversation_id = None \/ request.conversation_id = <<>>) =>
               /\ Len(result.conversation_id) = 8
               /\ \E uuid \in Uuids : result.conversation_id = SubSeq(uuid, 1, 8)

\* C5: a request that supplied the empty string succeeded with an id of 8
\* characters.
C5_Witness ==
    /\ pc = "done"
    /\ result.status_code = 200
    /\ request.conversation_id = <<>>
    /\ Len(result.conversation_id) = 8

\* C6: _clean_response is idempotent on texts of ordinary characters, blanks
\* and end-of-turn markers in any order.
C6_CleanIdempotent == clean_pc = "twice" => clean_twice = clean_once

\* s is made of end-of-turn markers and whitespace alone.
RECURSIVE OnlyMarkersAndWhitespace(_)
OnlyMarkersAndWhitespace(s) ==
    \/ s = <<>>
    \/ Head(s) \in Whitespace /\ OnlyMarkersAndWhitespace(Tail(s))
    \/ \E i \in 1..Len(EndTokens) :
           /\ Len(EndTokens[i]) <= Len(s)
           /\ SubSeq(s, 1, Len(EndTokens[i])) = EndTokens[i]
           /\ OnlyMarkersAndWhitespace(SubSeq(s, Len(EndTokens[i]) + 1, Len(s)))

\* The generated text of a 200 reply, when the reply carries one.
ExtractedText ==
    IF post.kind = "response" /\ post.status_code = 200 /\ post.json.t # "notjson"
    THEN response_text_of(use_dedicated_endpoint, post.json)
    ELSE Raise(<<>>)

\* C7: a 200 reply whose generated text is empty, whitespace-only, or made of
\* markers and whitespace alone makes generate_response fail; it never returns
\* a (text, conversation id) pair for it.
C7_MarkerOnlyTextFails ==
    (/\ pc = "done"
     /\ ExtractedText.t = "str"
     /\ OnlyMarkersAndWhitespace(ExtractedText.v)) =>
        (result.status_code = 500 /\ result.response = <<>>)

\* The diagnostic of a non-200 response in the order stated: the message of a
\* nested error object, else the flat string value of 'error', else the raw
\* body text, else the status code.
StatedDiagnostic(response) ==
    LET data == response.json
        error == IF data.t = "dict" /\ HasKey(data.v, K_error)
                 THEN Lookup(data.v, K_error) ELSE Raise(<<>>)
    IN  IF error.t = "dict" /\ HasKey(error.v, K_message)
        THEN PyStr(Lookup(error.v, K_message))
        ELSE IF error.t = "str" THEN error.v
        ELSE IF response.text # <<>> THEN response.text
        ELSE NatStr(response.status_code)

\* C8: on a non-200 status generate_response fails and the failure message
\* carries the diagnostic chosen in the stated order.
C8_DiagnosticInStatedOrder ==
    (pc = "done" /\ post.kind = "response" /\ post.status_code # 200) =>
        /\ result.status_code = 500
        /\ result.response = <<>>
        /\ Contains(result.detail, StatedDiagnostic(post))

\* The reply is a non-empty list whose first element carries 'generated_text',
\* or a single object carrying it.
CarriesGeneratedText(data) ==
    \/ /\ data.t = "list"
       /\ data.v # <<>>
       /\ data.v[1].t = "dict"
       /\ HasKey(data.v[1].v, K_generated_text)
    \/ data.t = "dict" /\ HasKey(data.v, K_generated_text)

\* C9: with the dedicated endpoint and a 200 reply, generate_response succeeds
\* only when the reply carries 'generated_text' in one of the two shapes; for
\* every other shape it fails.
C9_OtherShapesFail ==
    (/\ pc = "done"
     /\ use_dedicated_endpoint
     /\ post.kind = "response"
     /\ post.status_code = 200
     /\ result.status_code = 200) =>
        (post.json.t # "notjson" /\ CarriesGeneratedText(post.json))

\* C10: an accepted request issues at most one upstream POST; when the POST is
\* answered with a non-200 status or a malformed or empty reply, or times
\* out, the request ends 500 with that one POST.
C10_AtMostOnePost ==
    /\ posts <= 1
    /\ (post.kind # "none"
        /\ ~generate_response_end(use_dedicated_endpoint, post, conv_id).ok) =>
           (pc = "done" /\ result.status_code = 500 /\ posts = 1)

\* C10: a request whose POST timed out has ended 500 after one POST.
C10_Witness ==
    /\ pc = "done"
    /\ post.kind = "timeout"
    /\ result.status_code = 500
    /\ posts = 1

====
